---- MODULE Spec2Model ----
(***************************************************************************)
(* Model of the form3 account API client: the HTTP transport client        *)
(* (package httputils) and the account resource client (package accounts). *)
(*                                                                         *)
(* The repository holds two revisions of the transport:                    *)
(*   "handleResponse": httputils/httpclient.go lines 1-118, one shared     *)
(*                     response handler that classifies by status range;   *)
(*   "perVerb":        httputils/httpclient.go lines 120-283, a switch on  *)
(*                     the status code in each of Post, Get and Delete,    *)
(*                     with an injected body reader, unmarshaller and      *)
(*                     request creator;                                    *)
(* two revisions of ResponseError.Error:                                   *)
(*   "emptyAware": with the "no message received" branch;                  *)
(*   "plain":      always "... and message: <message>";                    *)
(* and three revisions of the resource client:                             *)
(*   "injected":  accounts/client.go lines 1-88, with an injected payload  *)
(*                marshaller and response unmarshaller;                    *)
(*   "extract":   accounts/client.go lines 90-177, which calls             *)
(*                encoding/json itself, in extractAccountDataFromResponse; *)
(*   "uuidParse": the FetchResource of unnamed/part_003 lines 101-132,     *)
(*                which takes the id as a string and checks it with        *)
(*                uuid.Parse.                                              *)
(*                                                                         *)
(* A call proceeds in steps: Call, (ResourceStart), CreateRequest, Do,     *)
(* HandleResponse, (ResourceFinish | TransportReturn), Return.             *)
(* A Go error is a sequence of layers, outermost first: << >> is nil, and  *)
(* fmt.Errorf("%w; ...", err) puts a layer in front of err.  A nil slice   *)
(* or pointer is << >>, a non-nil one is a one-element sequence.           *)
(***************************************************************************)
EXTENDS Integers, Sequences, FiniteSets, TLC

VARIABLES
    httpRev,        \* revision of the transport client
    errRev,         \* revision of ResponseError.Error
    accRev,         \* revision of the resource client
    client,         \* what NewClient returned: [made, baseURI, err]
    store,          \* the ids of the accounts the API server holds
    removed,        \* the ids of the accounts the API server has deleted and not stored again
    before,         \* the ids the API server held when the call in progress was made
    closes,         \* calls of response.Body.Close during this call
    caps,           \* the capabilities held by the client that concurrent callers share
    calls,          \* the calls of the concurrent callers: caller -> call in progress
    pc,             \* position of the call in progress
    op,             \* operation the caller invoked
    verb,           \* transport operation in progress
    arg,            \* arguments of the call: [id, version]
    request,        \* request handed to reqCreator: [Method, Path, RawQuery, URL, Body]
    response,       \* response returned by Do: [StatusCode, Body]
    env,            \* the injected capabilities in force during this call, and Do's error
    doCalls,        \* invocations of httpClient.Do during this call
    transportCalls, \* transport operations invoked by the resource client during this call
    ret,            \* what the transport operation returned: [bytes, err]
    out             \* what the caller receives: [bytes, data, err]

vars == <<httpRev, errRev, accRev, client, store, removed, before, closes, caps, calls,
          pc, op, verb, arg, request, response, env, doCalls, transportCalls, ret, out>>

\* what no operation changes: the revisions of the build, the constructed client,
\* and (but for the server's own step) the server's accounts
build == <<httpRev, errRev, accRev, client, store, removed, caps, calls>>

-----------------------------------------------------------------------------
(* Bounds and input sets *)

MaxVersion == 1

TransportRevisions == {"handleResponse", "perVerb"}
ErrorRevisions == {"emptyAware", "plain"}
AccountRevisions == {"injected", "extract", "uuidParse"}

TransportOps == {"Post", "Get", "Delete"}
ResourceOps == {"CreateResource", "FetchResource", "DeleteResource"}
Ops == TransportOps \cup ResourceOps

AccountIDs == {"ad27e265-9605-4b4b-a0e5-3003ea9cc4dc"}
\* a second account, for the calls made against the API server
ServerAccountIDs == AccountIDs \cup {"0d209d7f-d07a-4542-947f-5885fddddae2"}
\* an id that is no UUID, which only a revision taking the id as a string can be given
InvalidIDs == {"not-a-uuid"}
Versions == 0..MaxVersion

StatusCodes == {100, 200, 201, 204, 299, 301, 400, 404, 409, 418, 500}

StatusOK == 200
StatusCreated == 201
StatusNoContent == 204
StatusBadRequest == 400
StatusNotFound == 404
StatusConflict == 409

basePath == "/v1/organisation/accounts"
TestPath == "/a-valid-path"

\* the base URI the README and createFakeHttpClient construct the client with
DefaultBaseURI == "https://api.form3.tech"

\* base URIs handed to NewClient
BaseURIs ==
    {DefaultBaseURI, "http://localhost:8080/v1?debug=1", "not-valid-url",
     "/only/a/path", "http:///no-host", ""}

-----------------------------------------------------------------------------
(* Errors *)

NoErr == << >>

Layer(t, m, s, em) == [type |-> t, msg |-> m, StatusCode |-> s, ErrorMessage |-> em]

\* ResponseError.Error, by revision
ResponseErrorText(r) ==
    IF errRev = "emptyAware" /\ r.ErrorMessage = ""
    THEN "api failure with status code " \o ToString(r.StatusCode)
             \o " and no message received"
    ELSE "api failure with status code " \o ToString(r.StatusCode)
             \o " and message: " \o r.ErrorMessage

\* err.Error()
ErrorText(e) ==
    IF Head(e).type = "ResponseError" THEN ResponseErrorText(Head(e)) ELSE Head(e).msg

\* errors.New(m), and fmt.Errorf without %w
NewError(m) == <<Layer("errorString", m, 0, "")>>

\* fmt.Errorf("%w; <suffix>", e)
Wrap(e, suffix) == <<Layer("wrapError", ErrorText(e) \o "; " \o suffix, 0, "")>> \o e

\* &ResponseError{ErrorMessage: m, StatusCode: s}
ResponseError(s, m) == <<Layer("ResponseError", "", s, m)>>

\* fmt.Errorf("unexpected status code %d", status)
UnexpectedStatus(s) == NewError("unexpected status code " \o ToString(s))

\* errors.Unwrap
Unwrap(e) == Tail(e)

IsResponseError(e) == e # NoErr /\ Head(e).type = "ResponseError"

-----------------------------------------------------------------------------
(* URLs (net/url as NewClient and the operations call it).  A URL string   *)
(* is parsed character by character.  The inputs are lower-case and hold   *)
(* no control bytes, percent escapes, user information or dot segments, so *)
(* lower-casing, unescaping and dot-segment removal leave them as they are.*)

Char(s, i) == SubSeq(s, i, i)
Take(s, n) == SubSeq(s, 1, n)
Drop(s, n) == SubSeq(s, n + 1, Len(s))

\* strings.HasPrefix
HasPrefix(s, p) == Len(s) >= Len(p) /\ Take(s, Len(p)) = p

RECURSIVE IndexFrom(_, _, _)
IndexFrom(s, c, i) ==
    IF i > Len(s) THEN 0 ELSE IF Char(s, i) = c THEN i ELSE IndexFrom(s, c, i + 1)

\* strings.Index, counted from 1; 0 when c does not occur
Index(s, c) == IndexFrom(s, c, 1)

RECURSIVE LastIndexFrom(_, _, _)
LastIndexFrom(s, c, i) ==
    IF i < 1 THEN 0 ELSE IF Char(s, i) = c THEN i ELSE LastIndexFrom(s, c, i - 1)

\* strings.LastIndex, counted from 1; 0 when c does not occur
LastIndex(s, c) == LastIndexFrom(s, c, Len(s))

Letters ==
    {"a", "b", "c", "d", "e", "f", "g", "h", "i", "j", "k", "l", "m",
     "n", "o", "p", "q", "r", "s", "t", "u", "v", "w", "x", "y", "z"}
Digits == {"0", "1", "2", "3", "4", "5", "6", "7", "8", "9"}

\* getScheme: the position of the ':' that ends the scheme, 0 when the string has
\* no scheme, -1 for "missing protocol scheme"
RECURSIVE SchemeEnd(_, _)
SchemeEnd(s, i) ==
    IF i > Len(s) THEN 0
    ELSE CASE Char(s, i) \in Letters -> SchemeEnd(s, i + 1)
           [] Char(s, i) \in Digits \cup {"+", "-", "."} ->
                IF i = 1 THEN 0 ELSE SchemeEnd(s, i + 1)
           [] Char(s, i) = ":" -> IF i = 1 THEN -1 ELSE i
           [] OTHER -> 0

URL(scheme, opaque, host, path, query) ==
    [Scheme |-> scheme, Opaque |-> opaque, Host |-> host, Path |-> path,
     RawQuery |-> query]

ZeroURL == URL("", "", "", "", "")

\* &url.Error{Op: "parse", URL: rawURL, Err: errors.New(m)}
ParseError(rawURL, m) == NewError("parse \"" \o rawURL \o "\": " \o m)

\* url.parse(rawURL, viaRequest)
parse(rawURL, viaRequest) ==
    LET colon == SchemeEnd(rawURL, 1)
        scheme == IF colon > 0 THEN Take(rawURL, colon - 1) ELSE ""
        afterScheme == IF colon > 0 THEN Drop(rawURL, colon) ELSE rawURL
        mark == Index(afterScheme, "?")
        beforeQuery == IF mark = 0 THEN afterScheme ELSE Take(afterScheme, mark - 1)
        query == IF mark = 0 THEN "" ELSE Drop(afterScheme, mark)
        hasAuthority ==
            /\ scheme # "" \/ (~viaRequest /\ ~HasPrefix(beforeQuery, "///"))
            /\ HasPrefix(beforeQuery, "//")
        afterSlashes == Drop(beforeQuery, 2)
        slash == Index(afterSlashes, "/")
        host == IF slash = 0 THEN afterSlashes ELSE Take(afterSlashes, slash - 1)
        path == IF ~hasAuthority THEN beforeQuery
                ELSE IF slash = 0 THEN "" ELSE Drop(afterSlashes, slash - 1)
    IN
    CASE rawURL = "" /\ viaRequest ->
           [url |-> ZeroURL, err |-> ParseError(rawURL, "empty url")]
      [] rawURL = "*" -> [url |-> URL("", "", "", "*", ""), err |-> NoErr]
      [] colon = -1 ->
           [url |-> ZeroURL, err |-> ParseError(rawURL, "missing protocol scheme")]
      [] ~HasPrefix(beforeQuery, "/") /\ scheme # "" ->
           [url |-> URL(scheme, beforeQuery, "", "", query), err |-> NoErr]
      [] ~HasPrefix(beforeQuery, "/") /\ viaRequest ->
           [url |-> ZeroURL, err |-> ParseError(rawURL, "invalid URI for request")]
      [] OTHER ->
           [url |-> URL(scheme, "", IF hasAuthority THEN host ELSE "", path, query),
            err |-> NoErr]

\* url.ParseRequestURI
ParseRequestURI(rawURL) == parse(rawURL, TRUE)

\* url.Parse: the fragment is cut off first
Parse(rawURL) ==
    LET hash == Index(rawURL, "#") IN
    parse(IF hash = 0 THEN rawURL ELSE Take(rawURL, hash - 1), FALSE)

\* resolvePath(base, ref)
resolvePath(base, ref) ==
    LET full == CASE ref = "" -> base
                  [] ~HasPrefix(ref, "/") -> Take(base, LastIndex(base, "/")) \o ref
                  [] OTHER -> ref
    IN IF full = "" THEN "" ELSE IF HasPrefix(full, "/") THEN full ELSE "/" \o full

\* u.ResolveReference(&url.URL{Path: path, RawQuery: query})
ResolveReference(u, path, query) ==
    URL(u.Scheme, "", u.Host, resolvePath(u.Path, path),
        IF path = "" /\ query = "" THEN u.RawQuery ELSE query)

\* u.String()
String(u) ==
    (IF u.Scheme # "" THEN u.Scheme \o ":" ELSE "")
      \o (IF u.Opaque # "" THEN u.Opaque
          ELSE (IF (u.Scheme # "" \/ u.Host # "") /\ (u.Host # "" \/ u.Path # "")
                THEN "//" \o u.Host ELSE "")
                 \o (IF u.Path # "" /\ ~HasPrefix(u.Path, "/") /\ u.Host # ""
                     THEN "/" ELSE "")
                 \o u.Path)
      \o (IF u.RawQuery # "" THEN "?" \o u.RawQuery ELSE "")

-----------------------------------------------------------------------------
(* Bodies.  The content of a body is a JSON document: kind "empty" (no     *)
(* bytes), "invalid" (not JSON) or "object"; an object has the members the *)
(* decoders look at: error_message ("" when absent), StatusCode (0 when    *)
(* absent) and data ("" when absent, else the id of the account in it).    *)

Doc(k, em, sc, d) == [kind |-> k, error_message |-> em, StatusCode |-> sc, data |-> d]

EmptyDoc == Doc("empty", "", 0, "")
InvalidDoc == Doc("invalid", "", 0, "")

Messages == {"validation failure", "record does not exist"}

Contents ==
    {EmptyDoc, InvalidDoc, Doc("object", "", 0, ""), Doc("object", "", 418, "")}
      \cup {Doc("object", m, 0, "") : m \in Messages}
      \cup {Doc("object", "validation failure", 418, "")}
      \cup {Doc("object", "", 0, id) : id \in AccountIDs}

NilBytes == << >>
Bytes(doc) == <<doc>>

\* a response body stream: its content, and whether reading it fails
Stream(doc, fails) == [content |-> doc, readErr |-> fails]

Responses ==
    {[StatusCode |-> s, Body |-> Stream(d, f)] :
        s \in StatusCodes, d \in Contents, f \in BOOLEAN}

NoResponse == [StatusCode |-> 0, Body |-> Stream(EmptyDoc, FALSE)]

\* the responses that answer the calls of a client constructed from any base URI
SentResponses ==
    {[StatusCode |-> s, Body |-> Stream(d, FALSE)] :
        s \in {StatusOK, StatusCreated, StatusNoContent, StatusNotFound},
        d \in {EmptyDoc} \cup {Doc("object", "", 0, id) : id \in AccountIDs}}

\* []byte("something"), the payload the transport tests post
TestPayload == Bytes(InvalidDoc)

DoErrors == {NewError("failed to perform request")}

-----------------------------------------------------------------------------
(* Injected capabilities of the perVerb transport client: each is the      *)
(* standard library function NewClient installs, or a stub that fails as   *)
(* the stubs of createFakeHttpClient's callers do.                         *)

Readers == {"ioutil.ReadAll", "stub"}
Unmarshallers == {"json.Unmarshal", "stub"}
ReqCreators == {"http.NewRequest", "stub"}
Marshallers == {"json.Marshal", "stub"}

\* c.bodyReader(response.Body), ioutil.ReadAll(response.Body)
ReadBody(reader, resp) ==
    IF reader = "stub"
    THEN [bytes |-> NilBytes, err |-> NewError("failed to read body for some reason")]
    ELSE IF resp.Body.readErr
    THEN [bytes |-> NilBytes, err |-> NewError("unexpected EOF")]
    ELSE [bytes |-> Bytes(resp.Body.content), err |-> NoErr]

ZeroResponseError == [ErrorMessage |-> "", StatusCode |-> 0]

\* json.Unmarshal(bytes, &errRes) for errRes of type ResponseError
JsonUnmarshalError(bytes) ==
    LET doc == IF bytes = NilBytes THEN EmptyDoc ELSE Head(bytes) IN
    CASE doc.kind = "empty" ->
           [val |-> ZeroResponseError, err |-> NewError("unexpected end of JSON input")]
      [] doc.kind = "invalid" ->
           [val |-> ZeroResponseError,
            err |-> NewError("invalid character 'h' in literal true (expecting 'r')")]
      [] OTHER ->
           [val |-> [ErrorMessage |-> doc.error_message, StatusCode |-> doc.StatusCode],
            err |-> NoErr]

\* c.respUnmarshaller(respBody, &errRes)
UnmarshalError(unm, bytes) ==
    IF unm = "stub"
    THEN [val |-> ZeroResponseError, err |-> NewError("failed to unmarshal")]
    ELSE JsonUnmarshalError(bytes)

Result(b, e) == [bytes |-> b, err |-> e]

-----------------------------------------------------------------------------
(* Transport, revision "handleResponse" *)

\* json.NewDecoder(response.Body).Decode(&errRes): the error is discarded
DecodeError(resp) ==
    LET rd == ReadBody("ioutil.ReadAll", resp) IN
    IF rd.err # NoErr THEN ZeroResponseError ELSE JsonUnmarshalError(rd.bytes).val

handleResponse(resp) ==
    IF resp.StatusCode >= 200 /\ resp.StatusCode < 299
    THEN LET rd == ReadBody("ioutil.ReadAll", resp) IN
         IF rd.err # NoErr
         THEN Result(NilBytes, Wrap(rd.err, "failed to read response body"))
         ELSE Result(rd.bytes, NoErr)
    ELSE IF resp.StatusCode >= 400
    THEN LET errRes == DecodeError(resp) IN
         Result(NilBytes,
                ResponseError(IF errRes.StatusCode = 0 THEN resp.StatusCode
                                                       ELSE errRes.StatusCode,
                              errRes.ErrorMessage))
    ELSE Result(NilBytes, UnexpectedStatus(resp.StatusCode))

-----------------------------------------------------------------------------
(* Transport, revision "perVerb" *)

\* mutant of ApiFailure: the assignment errRes.StatusCode = response.StatusCode is lost
ApiFailureKeepsBodyStatus(unm, respBody, status) ==
    LET um == UnmarshalError(unm, respBody) IN
    IF um.err # NoErr
    THEN Result(NilBytes, um.err)
    ELSE Result(NilBytes, ResponseError(um.val.StatusCode, um.val.ErrorMessage))

\* the case of the switch that parses the body into a ResponseError
ApiFailure(unm, respBody, status) ==
    LET um == UnmarshalError(unm, respBody) IN
    IF um.err # NoErr
    THEN Result(NilBytes, um.err)
    ELSE Result(NilBytes, ResponseError(status, um.val.ErrorMessage))

\* mutant of PostResponse: the switch comes first and only its cases read the body
PostResponseReadsLate(reader, unm, resp) ==
    LET rd == ReadBody(reader, resp) IN
    CASE resp.StatusCode \in {StatusCreated, StatusConflict, StatusBadRequest} ->
           IF rd.err # NoErr
           THEN Result(NilBytes, Wrap(rd.err, "failed to read response body"))
           ELSE IF resp.StatusCode = StatusCreated
           THEN Result(rd.bytes, NoErr)
           ELSE ApiFailure(unm, rd.bytes, resp.StatusCode)
      [] OTHER -> Result(NilBytes, UnexpectedStatus(resp.StatusCode))

\* mutant of PostResponse: 409 is not among the statuses parsed as an API failure
PostResponseWithoutConflict(reader, unm, resp) ==
    LET rd == ReadBody(reader, resp) IN
    IF rd.err # NoErr
    THEN Result(NilBytes, Wrap(rd.err, "failed to read response body"))
    ELSE CASE resp.StatusCode = StatusCreated -> Result(rd.bytes, NoErr)
           [] resp.StatusCode = StatusBadRequest ->
                ApiFailure(unm, rd.bytes, resp.StatusCode)
           [] OTHER -> Result(NilBytes, UnexpectedStatus(resp.StatusCode))

\* mutant of PostResponse: 200 is a success as well as 201
PostResponseAccepts200(reader, unm, resp) ==
    LET rd == ReadBody(reader, resp) IN
    IF rd.err # NoErr
    THEN Result(NilBytes, Wrap(rd.err, "failed to read response body"))
    ELSE CASE resp.StatusCode \in {StatusOK, StatusCreated} -> Result(rd.bytes, NoErr)
           [] resp.StatusCode \in {StatusConflict, StatusBadRequest} ->
                ApiFailure(unm, rd.bytes, resp.StatusCode)
           [] OTHER -> Result(NilBytes, UnexpectedStatus(resp.StatusCode))

PostResponse(reader, unm, resp) ==
    LET rd == ReadBody(reader, resp) IN
    IF rd.err # NoErr
    THEN Result(NilBytes, Wrap(rd.err, "failed to read response body"))
    ELSE CASE resp.StatusCode = StatusCreated -> Result(rd.bytes, NoErr)
           [] resp.StatusCode \in {StatusConflict, StatusBadRequest} ->
                ApiFailure(unm, rd.bytes, resp.StatusCode)
           [] OTHER -> Result(NilBytes, UnexpectedStatus(resp.StatusCode))

\* mutant of GetResponse: every status from 400 up is parsed as an API failure
GetResponseFrom400(reader, unm, resp) ==
    LET rd == ReadBody(reader, resp) IN
    IF rd.err # NoErr
    THEN Result(NilBytes, Wrap(rd.err, "failed to read response body"))
    ELSE CASE resp.StatusCode = StatusOK -> Result(rd.bytes, NoErr)
           [] resp.StatusCode >= 400 -> ApiFailure(unm, rd.bytes, resp.StatusCode)
           [] OTHER -> Result(NilBytes, UnexpectedStatus(resp.StatusCode))

\* mutant of GetResponse: 404 gives the fixed message "not found", as in Delete
GetResponseNotFoundFixed(reader, unm, resp) ==
    LET rd == ReadBody(reader, resp) IN
    IF rd.err # NoErr
    THEN Result(NilBytes, Wrap(rd.err, "failed to read response body"))
    ELSE CASE resp.StatusCode = StatusOK -> Result(rd.bytes, NoErr)
           [] resp.StatusCode = StatusBadRequest ->
                ApiFailure(unm, rd.bytes, resp.StatusCode)
           [] resp.StatusCode = StatusNotFound ->
                Result(NilBytes, ResponseError(404, "not found"))
           [] OTHER -> Result(NilBytes, UnexpectedStatus(resp.StatusCode))

GetResponse(reader, unm, resp) ==
    LET rd == ReadBody(reader, resp) IN
    IF rd.err # NoErr
    THEN Result(NilBytes, Wrap(rd.err, "failed to read response body"))
    ELSE CASE resp.StatusCode = StatusOK -> Result(rd.bytes, NoErr)
           [] resp.StatusCode \in {StatusNotFound, StatusBadRequest} ->
                ApiFailure(unm, rd.bytes, resp.StatusCode)
           [] OTHER -> Result(NilBytes, UnexpectedStatus(resp.StatusCode))

\* mutant of DeleteResponse: 404 is parsed from the body like 400
DeleteResponseParses404(reader, unm, resp) ==
    CASE resp.StatusCode = StatusNoContent -> Result(NilBytes, NoErr)
      [] resp.StatusCode \in {StatusBadRequest, StatusNotFound} ->
           LET rd == ReadBody(reader, resp) IN
           IF rd.err # NoErr
           THEN Result(NilBytes, Wrap(rd.err, "failed to read response body"))
           ELSE ApiFailure(unm, rd.bytes, resp.StatusCode)
      [] OTHER -> Result(NilBytes, UnexpectedStatus(resp.StatusCode))

\* mutant of DeleteResponse: the body is read before the status is looked at, as Post
\* and Get read it
DeleteResponseReadsFirst(reader, unm, resp) ==
    LET rd == ReadBody(reader, resp) IN
    IF rd.err # NoErr
    THEN Result(NilBytes, Wrap(rd.err, "failed to read response body"))
    ELSE CASE resp.StatusCode = StatusNoContent -> Result(NilBytes, NoErr)
           [] resp.StatusCode = StatusBadRequest ->
                ApiFailure(unm, rd.bytes, resp.StatusCode)
           [] resp.StatusCode = StatusNotFound ->
                Result(NilBytes, ResponseError(404, "not found"))
           [] OTHER -> Result(NilBytes, UnexpectedStatus(resp.StatusCode))

DeleteResponse(reader, unm, resp) ==
    CASE resp.StatusCode = StatusNoContent -> Result(NilBytes, NoErr)
      [] resp.StatusCode = StatusBadRequest ->
           LET rd == ReadBody(reader, resp) IN
           IF rd.err # NoErr
           THEN Result(NilBytes, Wrap(rd.err, "failed to read response body"))
           ELSE ApiFailure(unm, rd.bytes, resp.StatusCode)
      [] resp.StatusCode = StatusNotFound ->
           Result(NilBytes, ResponseError(404, "not found"))
      [] OTHER -> Result(NilBytes, UnexpectedStatus(resp.StatusCode))

-----------------------------------------------------------------------------
(* Both revisions *)

\* what the operation returns once Do has returned a response
Classify(v, reader, unm, resp) ==
    IF httpRev = "handleResponse"
    THEN IF v = "Delete"
         THEN Result(NilBytes, handleResponse(resp).err)
         ELSE handleResponse(resp)
    ELSE CASE v = "Post" -> PostResponse(reader, unm, resp)
           [] v = "Get" -> GetResponse(reader, unm, resp)
           [] OTHER -> DeleteResponse(reader, unm, resp)

\* mutant of DoFailure: Post returns the cause as Get and Delete do
DoFailureUnwrapped(v, e) == Result(NilBytes, e)

\* what the operation returns when Do fails with e
DoFailure(v, e) ==
    IF httpRev = "perVerb" /\ v = "Post"
    THEN Result(NilBytes, Wrap(e, "failed to post data"))
    ELSE Result(NilBytes, e)

\* the calls of response.Body.Close an operation makes once Do has returned a
\* response: the defer of Post and Get in the perVerb revision, and no other
BodyCloses(v) == IF httpRev = "perVerb" /\ v \in {"Post", "Get"} THEN 1 ELSE 0

Method(v) ==
    CASE v = "Post" -> "POST" [] v = "Get" -> "GET" [] OTHER -> "DELETE"

\* mutant of NewClient: both revisions keep the parsed URL whole
NewClientKeepsParsedURL(baseURI) ==
    LET parsedBaseURI == ParseRequestURI(baseURI) IN
    IF parsedBaseURI.err # NoErr
    THEN [input |-> baseURI, made |-> FALSE, baseURI |-> URL("", "", "", "", ""),
          err |-> Wrap(parsedBaseURI.err, "invalid base uri")]
    ELSE [input |-> baseURI, made |-> TRUE, baseURI |-> parsedBaseURI.url, err |-> NoErr]

NoClient == [input |-> "", made |-> FALSE, baseURI |-> ZeroURL, err |-> NoErr]

\* httputils.NewClient(baseURI, timeout): the handleResponse revision keeps the parsed
\* URL, the perVerb revision its scheme and host
NewClient(baseURI) ==
    LET parsedBaseURI == ParseRequestURI(baseURI) IN
    IF parsedBaseURI.err # NoErr
    THEN [input |-> baseURI, made |-> FALSE, baseURI |-> ZeroURL,
          err |-> Wrap(parsedBaseURI.err, "invalid base uri")]
    ELSE [input |-> baseURI, made |-> TRUE,
          baseURI |-> IF httpRev = "handleResponse"
                      THEN parsedBaseURI.url
                      ELSE URL(parsedBaseURI.url.Scheme, "", parsedBaseURI.url.Host, "", ""),
          err |-> NoErr]

\* mutant of RequestURL: the resource path is appended to the path of the stored base URI
RequestURLJoinsBasePath(c, resourcePath, rawQuery) ==
    String(URL(c.baseURI.Scheme, "", c.baseURI.Host, c.baseURI.Path \o resourcePath,
               rawQuery))

\* c.baseURI.ResolveReference(&url.URL{Path: resourcePath, RawQuery: rawQuery}).String()
RequestURL(c, resourcePath, rawQuery) ==
    String(ResolveReference(c.baseURI, resourcePath, rawQuery))

\* http.NewRequest(method, url, body)
NewRequest(method, urlStr, body) ==
    LET u == Parse(urlStr) IN
    [Method |-> method, URL |-> u.url, Body |-> body, err |-> u.err]

\* the http.Client can send the request: Do fails on a URL without scheme or host
Sendable(req) == req.URL.Scheme \in {"http", "https"} /\ req.URL.Host # ""

-----------------------------------------------------------------------------
(* Resource client *)

\* the operations each revision of the resource client is modelled with
AccountOps(rev) == IF rev = "uuidParse" THEN {"FetchResource"} ELSE ResourceOps

NilData == << >>
AccountData(id) == <<[ID |-> id]>>

HexDigits == Digits \cup {"a", "b", "c", "d", "e", "f"}

\* uuid.Parse(s) succeeds, for the 36-character form xxxxxxxx-xxxx-xxxx-xxxx-xxxxxxxxxxxx
\* (any other length among the inputs is rejected, as uuid.Parse rejects it)
IsUUID(s) ==
    /\ Len(s) = 36
    /\ \A i \in 1..36 :
          IF i \in {9, 14, 19, 24} THEN Char(s, i) = "-" ELSE Char(s, i) \in HexDigits

\* client.payloadMarshaller(&payload{Data: accountData}), json.Marshal
MarshalPayload(m, id) ==
    IF m = "stub"
    THEN [bytes |-> NilBytes, err |-> NewError("failed to marshal")]
    ELSE [bytes |-> Bytes(Doc("object", "", 0, id)), err |-> NoErr]

\* client.respUnmarshaller(response, responsePayload) for a payload{Data *AccountData}
UnmarshalPayload(unm, bytes) ==
    LET doc == IF bytes = NilBytes THEN EmptyDoc ELSE Head(bytes) IN
    IF unm = "stub" \/ doc.kind # "object"
    THEN [data |-> NilData, ok |-> FALSE,
          err |-> IF unm = "stub" THEN NewError("failed to unmarshal")
                                  ELSE JsonUnmarshalError(bytes).err]
    ELSE [data |-> IF doc.data = "" THEN NilData ELSE AccountData(doc.data), ok |-> TRUE,
          err |-> NoErr]

Outcome(b, d, e) == [bytes |-> b, data |-> d, err |-> e]

OperationSuffix(o) ==
    CASE o = "CreateResource" -> "unable to create resource"
      [] o = "FetchResource" -> "unable to fetch resource"
      [] OTHER -> "unable to delete resource"

\* mutant of FinishResource: the transport error is formatted into the text, not wrapped
FinishResourceFlattens(o, unm, r) ==
    IF r.err # NoErr
    THEN Outcome(NilBytes, NilData, NewError(ErrorText(r.err) \o "; " \o OperationSuffix(o)))
    ELSE IF o = "DeleteResource"
    THEN Outcome(NilBytes, NilData, NoErr)
    ELSE LET p == UnmarshalPayload(unm, r.bytes) IN
         IF ~p.ok
         THEN Outcome(NilBytes, NilData, NewError("failed to unmarshal response data"))
         ELSE Outcome(NilBytes, p.data, NoErr)

\* revision "injected": the part of CreateResource, FetchResource and DeleteResource
\* that follows the transport call, which returned r
FinishResource(o, unm, r) ==
    IF r.err # NoErr
    THEN Outcome(NilBytes, NilData, Wrap(r.err, OperationSuffix(o)))
    ELSE IF o = "DeleteResource"
    THEN Outcome(NilBytes, NilData, NoErr)
    ELSE LET p == UnmarshalPayload(unm, r.bytes) IN
         IF ~p.ok
         THEN Outcome(NilBytes, NilData, NewError("failed to unmarshal response data"))
         ELSE Outcome(NilBytes, p.data, NoErr)

\* mutant of extractAccountDataFromResponse: the error of json.Unmarshal is returned
extractReturnsParserError(bytes) ==
    LET p == UnmarshalPayload("json.Unmarshal", bytes) IN
    IF p.err # NoErr
    THEN [data |-> NilData, err |-> p.err]
    ELSE [data |-> p.data, err |-> NoErr]

\* revision "extract": extractAccountDataFromResponse(response)
extractAccountDataFromResponse(bytes) ==
    LET p == UnmarshalPayload("json.Unmarshal", bytes) IN
    IF p.err # NoErr
    THEN [data |-> NilData, err |-> NewError("failed to unmarshal response data")]
    ELSE [data |-> p.data, err |-> NoErr]

ExtractSuffix(o) ==
    IF o = "CreateResource"
    THEN "failed to extract account data after successful account creation"
    ELSE "unable to extract the fetched data from the response"

\* mutant of FinishExtract: FetchResource and DeleteResource return the transport
\* error as they received it
FinishExtractPropagates(o, r) ==
    IF r.err # NoErr
    THEN Outcome(NilBytes, NilData,
                 IF o = "CreateResource" THEN Wrap(r.err, OperationSuffix(o)) ELSE r.err)
    ELSE IF o = "DeleteResource"
    THEN Outcome(NilBytes, NilData, NoErr)
    ELSE LET x == extractAccountDataFromResponse(r.bytes) IN
         IF x.err # NoErr
         THEN Outcome(NilBytes, NilData, Wrap(x.err, ExtractSuffix(o)))
         ELSE Outcome(NilBytes, x.data, NoErr)

\* mutant of FinishExtract: the errors are formatted into the text, not wrapped
FinishExtractFlattens(o, r) ==
    IF r.err # NoErr
    THEN Outcome(NilBytes, NilData, NewError(ErrorText(r.err) \o "; " \o OperationSuffix(o)))
    ELSE IF o = "DeleteResource"
    THEN Outcome(NilBytes, NilData, NoErr)
    ELSE LET x == extractAccountDataFromResponse(r.bytes) IN
         IF x.err # NoErr
         THEN Outcome(NilBytes, NilData, NewError(ErrorText(x.err) \o "; " \o ExtractSuffix(o)))
         ELSE Outcome(NilBytes, x.data, NoErr)

\* revision "extract": the part of the operations that follows the transport call
FinishExtract(o, r) ==
    IF r.err # NoErr
    THEN Outcome(NilBytes, NilData, Wrap(r.err, OperationSuffix(o)))
    ELSE IF o = "DeleteResource"
    THEN Outcome(NilBytes, NilData, NoErr)
    ELSE LET x == extractAccountDataFromResponse(r.bytes) IN
         IF x.err # NoErr
         THEN Outcome(NilBytes, NilData, Wrap(x.err, ExtractSuffix(o)))
         ELSE Outcome(NilBytes, x.data, NoErr)

\* revision "uuidParse": the part of FetchResource that follows client.http.Get; the
\* error of json.Unmarshal makes an errors.New whose value is dropped
FinishUuidParse(o, r) ==
    IF r.err # NoErr
    THEN Outcome(NilBytes, NilData, r.err)
    ELSE Outcome(NilBytes, UnmarshalPayload("json.Unmarshal", r.bytes).data, NoErr)

\* what the resource operation returns once the transport has returned r
ResourceOutcome(o, unm, r) ==
    CASE accRev = "injected" -> FinishResource(o, unm, r)
      [] accRev = "extract" -> FinishExtract(o, r)
      [] OTHER -> FinishUuidParse(o, r)

TransportOf(o) ==
    CASE o = "CreateResource" -> "Post"
      [] o = "FetchResource" -> "Get"
      [] OTHER -> "Delete"

\* mutant of ResourcePath: the id is left out of the path
ResourcePathOfCollection(o, id) == basePath

\* fmt.Sprintf("%s/%s", basePath, accountID.String())
ResourcePath(o, id) ==
    IF o = "CreateResource" THEN basePath ELSE basePath \o "/" \o id

\* mutant of EncodeQuery: the value is sent without its key
EncodeQueryBare(v) == v

\* url.Values{"version": {v}}.Encode()
EncodeQuery(v) == "version=" \o v

-----------------------------------------------------------------------------
(* The API server the integration tests run against.  It holds accounts by *)
(* id, each at version 0: a POST of a new account stores it and answers    *)
(* 201 with the account, a POST of a stored id answers 409; a GET answers  *)
(* 200 with the account or 404 with a message; a DELETE of a stored id at  *)
(* version 0 removes it and answers 204, of an absent id answers 404 with  *)
(* an empty body.                                                          *)

Reply(status, doc, accounts) ==
    [response |-> [StatusCode |-> status, Body |-> Stream(doc, FALSE)],
     store |-> accounts]

ServerAnswer(accounts, req) ==
    LET id == IF HasPrefix(req.URL.Path, basePath \o "/")
              THEN Drop(req.URL.Path, Len(basePath) + 1) ELSE ""
        posted == IF req.Body = NilBytes THEN "" ELSE Head(req.Body).data
    IN
    CASE req.Method = "POST" /\ req.URL.Path = basePath ->
           IF posted = ""
           THEN Reply(StatusBadRequest, Doc("object", "validation failure", 0, ""), accounts)
           ELSE IF posted \in accounts
           THEN Reply(StatusConflict,
                      Doc("object",
                          "Account cannot be created as it violates a duplicate constraint",
                          0, ""),
                      accounts)
           ELSE Reply(StatusCreated, Doc("object", "", 0, posted), accounts \cup {posted})
      [] req.Method = "GET" /\ id # "" ->
           IF id \in accounts
           THEN Reply(StatusOK, Doc("object", "", 0, id), accounts)
           ELSE Reply(StatusNotFound,
                      Doc("object", "record " \o id \o " does not exist", 0, ""), accounts)
      [] req.Method = "DELETE" /\ id # "" ->
           IF id \notin accounts
           THEN Reply(StatusNotFound, EmptyDoc, accounts)
           ELSE IF req.URL.RawQuery = EncodeQuery("0")
           THEN Reply(StatusNoContent, EmptyDoc, accounts \ {id})
           ELSE Reply(StatusConflict, Doc("object", "invalid version", 0, ""), accounts)
      [] OTHER -> Reply(StatusNotFound, EmptyDoc, accounts)

-----------------------------------------------------------------------------
(* State machine *)

NoArg == [path |-> "", version |-> "", id |-> "", body |-> NilBytes]
NoRequest == [Method |-> "", Path |-> "", RawQuery |-> "", URL |-> ZeroURL,
              Body |-> NilBytes]
NoEnv == [reqCreator |-> "", doErr |-> NoErr, reader |-> "", unmarshaller |-> "",
          marshaller |-> "", accUnmarshaller |-> ""]
NoResult == Result(NilBytes, NoErr)
NoOutcome == Outcome(NilBytes, NilData, NoErr)

\* the concurrent callers
Procs == {"caller1", "caller2"}

\* a caller with no call in progress
NoCallRecord ==
    [pc |-> "idle", op |-> "", verb |-> "", arg |-> NoArg, request |-> NoRequest,
     response |-> NoResponse, doErr |-> NoErr, ret |-> NoResult, out |-> NoOutcome,
     client |-> NoClient, caps |-> NoEnv]

\* no call in progress
NoCall ==
    /\ op = ""
    /\ verb = ""
    /\ arg = NoArg
    /\ request = NoRequest
    /\ response = NoResponse
    /\ env = NoEnv
    /\ doCalls = 0
    /\ transportCalls = 0
    /\ ret = NoResult
    /\ out = NoOutcome
    /\ before = {}
    /\ closes = 0
    /\ calls = [p \in Procs |-> NoCallRecord]

\* the client NewClient(DefaultBaseURI, timeout) returned, before its first call
Init ==
    /\ httpRev \in TransportRevisions
    /\ errRev \in ErrorRevisions
    /\ accRev \in AccountRevisions
    /\ client = NewClient(DefaultBaseURI)
    /\ store = {}
    /\ removed = {}
    /\ caps = NoEnv
    /\ pc = "idle"
    /\ NoCall

\* NewClient(baseURI, timeout) is called
Construct(baseURI) ==
    /\ pc = "new"
    /\ client' = NewClient(baseURI)
    /\ pc' = IF client'.made THEN "idle" ELSE "failed"
    /\ UNCHANGED <<httpRev, errRev, accRev, store, removed, before, closes, caps, calls,
                   op, verb, arg, request, response, env, doCalls, transportCalls, ret, out>>

\* the caller invokes Post, Get or Delete on the transport client
CallTransport(v) ==
    /\ pc = "idle"
    /\ op' = v
    /\ verb' = v
    /\ arg' = [path |-> TestPath, version |-> IF v = "Delete" THEN "0" ELSE "", id |-> "",
               body |-> IF v = "Post" THEN TestPayload ELSE NilBytes]
    /\ pc' = "request"
    /\ request' = NoRequest
    /\ response' = NoResponse
    /\ env' = NoEnv
    /\ doCalls' = 0
    /\ transportCalls' = 0
    /\ ret' = NoResult
    /\ out' = NoOutcome
    /\ before' = store
    /\ closes' = 0
    /\ UNCHANGED build

\* the caller invokes CreateResource, FetchResource or DeleteResource
CallResource(o, id, version) ==
    /\ pc = "idle"
    /\ o \in AccountOps(accRev)
    /\ id \in InvalidIDs => accRev = "uuidParse"
    /\ op' = o
    /\ verb' = ""
    /\ arg' = [path |-> ResourcePath(o, id),
               version |-> IF o = "DeleteResource" THEN ToString(version) ELSE "",
               id |-> id, body |-> NilBytes]
    /\ pc' = "resource"
    /\ request' = NoRequest
    /\ response' = NoResponse
    /\ env' = NoEnv
    /\ doCalls' = 0
    /\ transportCalls' = 0
    /\ ret' = NoResult
    /\ out' = NoOutcome
    /\ before' = store
    /\ closes' = 0
    /\ UNCHANGED build

\* mutant of ResourceStart: the payload that could not be marshalled is posted all the same
ResourceStartPostsAnyway(m) ==
    /\ pc = "resource"
    /\ m = "stub" => op = "CreateResource" /\ accRev = "injected"
    /\ verb' = TransportOf(op)
    /\ transportCalls' = transportCalls + 1
    /\ pc' = "request"
    /\ env' = IF op = "CreateResource" THEN [env EXCEPT !.marshaller = m] ELSE env
    /\ arg' = IF op = "CreateResource"
              THEN [arg EXCEPT !.body = MarshalPayload(m, arg.id).bytes] ELSE arg
    /\ UNCHANGED <<build, before, closes, op, request, response, doCalls, ret, out>>

\* the part of the resource operation that precedes the transport call: uuidParse
\* checks the id, CreateResource marshals the payload; then the transport is called
ResourceStart(m) ==
    /\ pc = "resource"
    /\ m = "stub" => op = "CreateResource" /\ accRev = "injected"
    /\ CASE accRev = "uuidParse" /\ ~IsUUID(arg.id) ->
              /\ out' = Outcome(NilBytes, NilData, NewError("invalid uuid: " \o arg.id))
              /\ pc' = "done"
              /\ UNCHANGED <<verb, transportCalls, env, arg>>
         [] op = "CreateResource" /\ MarshalPayload(m, arg.id).err # NoErr ->
              /\ out' = Outcome(NilBytes, NilData,
                                Wrap(MarshalPayload(m, arg.id).err,
                                     "unable to convert account data payload"))
              /\ pc' = "done"
              /\ env' = [env EXCEPT !.marshaller = m]
              /\ UNCHANGED <<verb, transportCalls, arg>>
         [] OTHER ->
              /\ verb' = TransportOf(op)
              /\ transportCalls' = transportCalls + 1
              /\ pc' = "request"
              /\ env' = IF op = "CreateResource" THEN [env EXCEPT !.marshaller = m] ELSE env
              /\ arg' = IF op = "CreateResource"
                        THEN [arg EXCEPT !.body = MarshalPayload(m, arg.id).bytes] ELSE arg
              /\ UNCHANGED out
    /\ UNCHANGED <<build, before, closes, op, request, response, doCalls, ret>>

\* mutant of CreateRequest: the request creator's error is wrapped before it is returned
CreateRequestWraps(rc) ==
    /\ pc = "request"
    /\ rc = "stub" => httpRev = "perVerb"
    /\ env' = [env EXCEPT !.reqCreator = rc]
    /\ LET rawQuery == IF verb = "Delete" THEN EncodeQuery(arg.version) ELSE ""
           req == NewRequest(Method(verb), RequestURL(client, arg.path, rawQuery), arg.body)
       IN
       CASE rc = "stub" ->
              /\ ret' = Result(NilBytes, Wrap(NewError("failed to create the request"),
                                              "unable to create request"))
              /\ pc' = "returned"
              /\ UNCHANGED request
         [] rc # "stub" /\ req.err # NoErr ->
              /\ ret' = Result(NilBytes, Wrap(req.err, "unable to create request"))
              /\ pc' = "returned"
              /\ UNCHANGED request
         [] OTHER ->
              /\ request' = [Method |-> req.Method, Path |-> arg.path, RawQuery |-> rawQuery,
                             URL |-> req.URL, Body |-> req.Body]
              /\ pc' = "do"
              /\ UNCHANGED ret
    /\ UNCHANGED <<build, before, closes, op, verb, arg, response, doCalls, transportCalls, out>>

\* c.reqCreator(method, requestURL.String(), body)
CreateRequest(rc) ==
    /\ pc = "request"
    /\ rc = "stub" => httpRev = "perVerb"
    /\ env' = [env EXCEPT !.reqCreator = rc]
    /\ LET rawQuery == IF verb = "Delete" THEN EncodeQuery(arg.version) ELSE ""
           req == NewRequest(Method(verb), RequestURL(client, arg.path, rawQuery), arg.body)
       IN
       CASE rc = "stub" ->
              /\ ret' = Result(NilBytes, NewError("failed to create the request"))
              /\ pc' = "returned"
              /\ UNCHANGED request
         [] rc # "stub" /\ req.err # NoErr ->
              /\ ret' = Result(NilBytes, req.err)
              /\ pc' = "returned"
              /\ UNCHANGED request
         [] OTHER ->
              /\ request' = [Method |-> req.Method, Path |-> arg.path, RawQuery |-> rawQuery,
                             URL |-> req.URL, Body |-> req.Body]
              /\ pc' = "do"
              /\ UNCHANGED ret
    /\ UNCHANGED <<build, before, closes, op, verb, arg, response, doCalls, transportCalls, out>>

\* mutant of DoFails: a failed Do is retried once
DoFailsAndRetries(e) ==
    /\ pc = "do"
    /\ doCalls' = doCalls + 1
    /\ env' = [env EXCEPT !.doErr = e]
    /\ IF doCalls = 0
       THEN pc' = "do" /\ UNCHANGED ret
       ELSE pc' = "returned" /\ ret' = DoFailure(verb, e)
    /\ UNCHANGED <<build, before, closes, op, verb, arg, request, response, transportCalls, out>>

\* c.httpClient.Do(request) fails with e
DoFails(e) ==
    /\ pc = "do"
    /\ doCalls' = doCalls + 1
    /\ env' = [env EXCEPT !.doErr = e]
    /\ ret' = DoFailure(verb, e)
    /\ pc' = "returned"
    /\ UNCHANGED <<build, before, closes, op, verb, arg, request, response, transportCalls, out>>

\* c.httpClient.Do(request) returns the response r
DoResponds(r) ==
    /\ pc = "do"
    /\ Sendable(request)
    /\ doCalls' = doCalls + 1
    /\ response' = r
    /\ pc' = "respond"
    /\ UNCHANGED <<build, before, closes, op, verb, arg, request, env, transportCalls, ret, out>>

\* c.httpClient.Do(request) reaches the API server, which answers from its accounts
ServerResponds ==
    /\ pc = "do"
    /\ Sendable(request)
    /\ doCalls' = doCalls + 1
    /\ response' = ServerAnswer(store, request).response
    /\ store' = ServerAnswer(store, request).store
    /\ removed' = (removed \cup (store \ store')) \ store'
    /\ pc' = "respond"
    /\ UNCHANGED <<httpRev, errRev, accRev, client, before, closes, caps, calls, op, verb,
                   arg, request, env, transportCalls, ret, out>>

\* the rest of Post, Get or Delete: read, classify, return
HandleResponse(reader, unm) ==
    /\ pc = "respond"
    /\ httpRev = "handleResponse" => reader = "ioutil.ReadAll" /\ unm = "json.Unmarshal"
    /\ env' = [env EXCEPT !.reader = reader, !.unmarshaller = unm]
    /\ ret' = Classify(verb, reader, unm, response)
    /\ closes' = BodyCloses(verb)
    /\ pc' = "returned"
    /\ UNCHANGED <<build, before, op, verb, arg, request, response, doCalls,
                   transportCalls, out>>

\* Post, Get or Delete returns to the caller
TransportReturn ==
    /\ pc = "returned"
    /\ op \in TransportOps
    /\ out' = Outcome(ret.bytes, NilData, ret.err)
    /\ pc' = "done"
    /\ UNCHANGED <<build, before, closes, op, verb, arg, request, response, env, doCalls,
                   transportCalls, ret>>

\* Post, Get or Delete returns to the resource client, which wraps the error or
\* unmarshals the response
ResourceFinish(unm) ==
    /\ pc = "returned"
    /\ op \in ResourceOps
    /\ unm = "stub" => accRev = "injected" /\ ret.err = NoErr /\ op # "DeleteResource"
    /\ env' = [env EXCEPT !.accUnmarshaller = unm]
    /\ out' = ResourceOutcome(op, unm, ret)
    /\ pc' = "done"
    /\ UNCHANGED <<build, before, closes, op, verb, arg, request, response, doCalls,
                   transportCalls, ret>>

\* the caller has the result; the client is ready for the next call
Return ==
    /\ pc = "done"
    /\ pc' = "idle"
    /\ UNCHANGED <<build, before, closes, op, verb, arg, request, response, env, doCalls,
                   transportCalls, ret, out>>

Next ==
    \/ \E v \in TransportOps : CallTransport(v)
    \/ \E o \in ResourceOps, id \in AccountIDs \cup InvalidIDs, version \in Versions :
          CallResource(o, id, version)
    \/ \E m \in Marshallers : ResourceStart(m)
    \/ \E rc \in ReqCreators : CreateRequest(rc)
    \/ \E e \in DoErrors : DoFails(e)
    \/ \E r \in Responses : DoResponds(r)
    \/ \E reader \in Readers, unm \in Unmarshallers : HandleResponse(reader, unm)
    \/ TransportReturn
    \/ \E unm \in Unmarshallers : ResourceFinish(unm)
    \/ Return

Spec == Init /\ [][Next]_vars

\* the perVerb revision of the transport alone
InitPerVerb == Init /\ httpRev = "perVerb"
SpecPerVerb == InitPerVerb /\ [][Next]_vars

\* the client from its construction on, with any base URI: the calls are answered
\* by the responses of SentResponses
InitNew ==
    /\ httpRev \in TransportRevisions
    /\ errRev \in ErrorRevisions
    /\ accRev \in AccountRevisions
    /\ client = NoClient
    /\ store = {}
    /\ removed = {}
    /\ caps = NoEnv
    /\ pc = "new"
    /\ NoCall

NextNew ==
    \/ \E baseURI \in BaseURIs : Construct(baseURI)
    \/ \E v \in TransportOps : CallTransport(v)
    \/ \E o \in ResourceOps, id \in AccountIDs, version \in Versions :
          CallResource(o, id, version)
    \/ \E m \in Marshallers : ResourceStart(m)
    \/ \E rc \in ReqCreators : CreateRequest(rc)
    \/ \E e \in DoErrors : DoFails(e)
    \/ \E r \in SentResponses : DoResponds(r)
    \/ \E reader \in Readers, unm \in Unmarshallers : HandleResponse(reader, unm)
    \/ TransportReturn
    \/ \E unm \in Unmarshallers : ResourceFinish(unm)
    \/ Return

SpecNew == InitNew /\ [][NextNew]_vars

\* the client against the API server: every capability is the real one and every
\* request is answered by the server
NextServer ==
    \/ \E o \in ResourceOps, id \in ServerAccountIDs, version \in Versions :
          CallResource(o, id, version)
    \/ ResourceStart("json.Marshal")
    \/ CreateRequest("http.NewRequest")
    \/ ServerResponds
    \/ HandleResponse("ioutil.ReadAll", "json.Unmarshal")
    \/ ResourceFinish("json.Unmarshal")
    \/ Return

SpecServer == Init /\ [][NextServer]_vars

-----------------------------------------------------------------------------
(* Concurrent callers of one client.  The client holds its base URI and    *)
(* its capabilities; each caller's call has its own arguments, request,    *)
(* response and results, as the locals of Post, Get, Delete and of the     *)
(* resource operations are.  Do is concurrency-safe: each caller gets the  *)
(* answer to its own request.                                              *)

\* the capabilities a client can have been given, by revision
Capabilities ==
    {[reqCreator |-> rc, doErr |-> NoErr, reader |-> rd, unmarshaller |-> um,
      marshaller |-> m, accUnmarshaller |-> au] :
        rc \in ReqCreators, rd \in Readers, um \in Unmarshallers,
        m \in Marshallers, au \in Unmarshallers}

CapabilitiesOf(hr, ar) ==
    {c \in Capabilities :
        /\ hr = "handleResponse" =>
             /\ c.reqCreator = "http.NewRequest"
             /\ c.reader = "ioutil.ReadAll"
             /\ c.unmarshaller = "json.Unmarshal"
        /\ ar # "injected" =>
             c.marshaller = "json.Marshal" /\ c.accUnmarshaller = "json.Unmarshal"
        /\ c.reader = c.unmarshaller
        /\ c.marshaller = c.accUnmarshaller}

\* the arguments of a call of operation o
ArgsOf(o, id, version) ==
    IF o \in TransportOps
    THEN [path |-> TestPath, version |-> IF o = "Delete" THEN "0" ELSE "", id |-> "",
          body |-> IF o = "Post" THEN TestPayload ELSE NilBytes]
    ELSE [path |-> ResourcePath(o, id),
          version |-> IF o = "DeleteResource" THEN ToString(version) ELSE "",
          id |-> id, body |-> NilBytes]

\* the transport operation that operation o comes to
VerbOf(o) == IF o \in TransportOps THEN o ELSE TransportOf(o)

\* what the part of a resource operation before the transport call returns, when it
\* returns: the id is no UUID, or the payload cannot be marshalled
EarlyReturn(cp, o, a) ==
    CASE accRev = "uuidParse" /\ o \in ResourceOps /\ ~IsUUID(a.id) ->
           Outcome(NilBytes, NilData, NewError("invalid uuid: " \o a.id))
      [] o = "CreateResource" /\ MarshalPayload(cp.marshaller, a.id).err # NoErr ->
           Outcome(NilBytes, NilData,
                   Wrap(MarshalPayload(cp.marshaller, a.id).err,
                        "unable to convert account data payload"))
      [] OTHER -> NoOutcome

\* the request a call builds
RequestOf(c, o, a) ==
    LET v == VerbOf(o)
        rawQuery == IF v = "Delete" THEN EncodeQuery(a.version) ELSE ""
        body == IF o = "CreateResource" THEN MarshalPayload("json.Marshal", a.id).bytes
                                        ELSE a.body
    IN [req |-> NewRequest(Method(v), RequestURL(c, a.path, rawQuery), body),
        Path |-> a.path, RawQuery |-> rawQuery]

\* what the operation gives its caller once the transport operation has returned tr
OutcomeOf(cp, o, tr) ==
    IF o \in TransportOps
    THEN Outcome(tr.bytes, NilData, tr.err)
    ELSE ResourceOutcome(o, cp.accUnmarshaller, tr)

\* the result of a call run alone on client c with capabilities cp, when Do fails with
\* e (if e is an error) or else returns the response r
RunAlone(c, cp, o, a, e, r) ==
    LET v == VerbOf(o)
        built == RequestOf(c, o, a)
        tr == CASE cp.reqCreator = "stub" ->
                     Result(NilBytes, NewError("failed to create the request"))
                [] cp.reqCreator # "stub" /\ built.req.err # NoErr ->
                     Result(NilBytes, built.req.err)
                [] OTHER ->
                     IF e # NoErr THEN DoFailure(v, e)
                     ELSE Classify(v, cp.reader, cp.unmarshaller, r)
    IN IF EarlyReturn(cp, o, a) # NoOutcome THEN EarlyReturn(cp, o, a)
       ELSE OutcomeOf(cp, o, tr)

\* caller p invokes an operation
GoCall(p, o, id, version) ==
    /\ calls[p].pc = "idle"
    /\ o \in ResourceOps => o \in AccountOps(accRev)
    /\ calls' = [calls EXCEPT ![p] =
                   [NoCallRecord EXCEPT !.op = o, !.arg = ArgsOf(o, id, version),
                                        !.client = client, !.caps = caps,
                                        !.pc = IF o \in TransportOps THEN "request"
                                                                     ELSE "resource",
                                        !.verb = IF o \in TransportOps THEN o ELSE ""]]
    /\ UNCHANGED <<httpRev, errRev, accRev, client, store, removed, before, closes, caps,
                   pc, op, verb, arg, request, response, env, doCalls, transportCalls,
                   ret, out>>

\* the resource operation of caller p checks and marshals, then calls the transport
GoStart(p) ==
    /\ calls[p].pc = "resource"
    /\ LET early == EarlyReturn(caps, calls[p].op, calls[p].arg) IN
       calls' = [calls EXCEPT ![p] =
                   IF early # NoOutcome
                   THEN [@ EXCEPT !.out = early, !.pc = "done"]
                   ELSE [@ EXCEPT !.verb = TransportOf(calls[p].op), !.pc = "request",
                                  !.arg = IF calls[p].op = "CreateResource"
                                          THEN [calls[p].arg EXCEPT !.body =
                                                  MarshalPayload(caps.marshaller,
                                                                 calls[p].arg.id).bytes]
                                          ELSE calls[p].arg]]
    /\ UNCHANGED <<httpRev, errRev, accRev, client, store, removed, before, closes, caps,
                   pc, op, verb, arg, request, response, env, doCalls, transportCalls,
                   ret, out>>

\* caller p builds its request: c.reqCreator(method, requestURL.String(), body)
GoRequest(p) ==
    /\ calls[p].pc = "request"
    /\ LET rawQuery == IF calls[p].verb = "Delete" THEN EncodeQuery(calls[p].arg.version)
                                                   ELSE ""
           req == NewRequest(Method(calls[p].verb),
                             RequestURL(client, calls[p].arg.path, rawQuery),
                             calls[p].arg.body)
       IN calls' = [calls EXCEPT ![p] =
                   IF caps.reqCreator = "stub"
                   THEN [@ EXCEPT !.ret = Result(NilBytes,
                                                 NewError("failed to create the request")),
                                  !.pc = "returned"]
                   ELSE IF req.err # NoErr
                   THEN [@ EXCEPT !.ret = Result(NilBytes, req.err), !.pc = "returned"]
                   ELSE [@ EXCEPT !.request =
                                    [Method |-> req.Method, Path |-> calls[p].arg.path,
                                     RawQuery |-> rawQuery, URL |-> req.URL,
                                     Body |-> req.Body],
                                  !.pc = "do"]]
    /\ UNCHANGED <<httpRev, errRev, accRev, client, store, removed, before, closes, caps,
                   pc, op, verb, arg, request, response, env, doCalls, transportCalls,
                   ret, out>>

\* Do fails for caller p
GoDoFails(p, e) ==
    /\ calls[p].pc = "do"
    /\ calls' = [calls EXCEPT ![p] =
                   [@ EXCEPT !.doErr = e, !.ret = DoFailure(calls[p].verb, e),
                             !.pc = "returned"]]
    /\ UNCHANGED <<httpRev, errRev, accRev, client, store, removed, before, closes, caps,
                   pc, op, verb, arg, request, response, env, doCalls, transportCalls,
                   ret, out>>

\* Do returns the response r to caller p
GoDoResponds(p, r) ==
    /\ calls[p].pc = "do"
    /\ Sendable(calls[p].request)
    /\ calls' = [calls EXCEPT ![p] = [@ EXCEPT !.response = r, !.pc = "respond"]]
    /\ UNCHANGED <<httpRev, errRev, accRev, client, store, removed, before, closes, caps,
                   pc, op, verb, arg, request, response, env, doCalls, transportCalls,
                   ret, out>>

\* mutant of GoHandle: the response is kept in one place for all callers, and the caller
\* classifies the one that is there
GoHandleSharedResponse(p) ==
    /\ calls[p].pc = "respond"
    /\ \E q \in Procs :
          /\ calls[q].response # NoResponse
          /\ calls' = [calls EXCEPT ![p] =
                         [@ EXCEPT !.ret = Classify(calls[p].verb, caps.reader,
                                                    caps.unmarshaller, calls[q].response),
                                   !.pc = "returned"]]
    /\ UNCHANGED <<httpRev, errRev, accRev, client, store, removed, before, closes, caps,
                   pc, op, verb, arg, request, response, env, doCalls, transportCalls,
                   ret, out>>

\* the rest of the transport operation of caller p: read, classify, return
GoHandle(p) ==
    /\ calls[p].pc = "respond"
    /\ calls' = [calls EXCEPT ![p] =
                   [@ EXCEPT !.ret = Classify(calls[p].verb, caps.reader,
                                              caps.unmarshaller, calls[p].response),
                             !.pc = "returned"]]
    /\ UNCHANGED <<httpRev, errRev, accRev, client, store, removed, before, closes, caps,
                   pc, op, verb, arg, request, response, env, doCalls, transportCalls,
                   ret, out>>

\* the operation of caller p returns its result
GoFinish(p) ==
    /\ calls[p].pc = "returned"
    /\ calls' = [calls EXCEPT ![p] =
                   [@ EXCEPT !.out = OutcomeOf(caps, calls[p].op, calls[p].ret),
                             !.pc = "done"]]
    /\ UNCHANGED <<httpRev, errRev, accRev, client, store, removed, before, closes, caps,
                   pc, op, verb, arg, request, response, env, doCalls, transportCalls,
                   ret, out>>

\* caller p has its result and is ready for its next call
GoReturn(p) ==
    /\ calls[p].pc = "done"
    /\ calls' = [calls EXCEPT ![p] = NoCallRecord]
    /\ UNCHANGED <<httpRev, errRev, accRev, client, store, removed, before, closes, caps,
                   pc, op, verb, arg, request, response, env, doCalls, transportCalls,
                   ret, out>>

InitConcurrent ==
    /\ httpRev \in TransportRevisions
    /\ errRev \in ErrorRevisions
    /\ accRev \in AccountRevisions
    /\ client = NewClient(DefaultBaseURI)
    /\ store = {}
    /\ removed = {}
    /\ caps \in CapabilitiesOf(httpRev, accRev)
    /\ pc = "idle"
    /\ NoCall

NextConcurrent ==
    \E p \in Procs :
        \/ \E o \in Ops, id \in AccountIDs, version \in Versions : GoCall(p, o, id, version)
        \/ GoStart(p)
        \/ GoRequest(p)
        \/ \E e \in DoErrors : GoDoFails(p, e)
        \/ \E r \in SentResponses : GoDoResponds(p, r)
        \/ GoHandle(p)
        \/ GoFinish(p)
        \/ GoReturn(p)

SpecConcurrent == InitConcurrent /\ [][NextConcurrent]_vars

-----------------------------------------------------------------------------
(* The revision of the accounts package whose FetchResource and            *)
(* DeleteResource take the account id as a string (accounts/fetch.go and   *)
(* its DeleteResource).  Its transport is the httpUtils interface, whose   *)
(* Delete takes the resource path alone; the calls are answered as the     *)
(* mock of the unit tests answers them.                                    *)

StringIDOps == {"FetchResource", "DeleteResource"}

\* the ids a caller may pass as a string
StringIDs ==
    ServerAccountIDs \cup InvalidIDs
      \cup {"invalid-uuid", "", "zd27e265-9605-4b4b-a0e5-3003ea9cc4dc",
            "ad27e26509605-4b4b-a0e5-3003ea9cc4dc"}

\* validateAccountIDFormat(accountID)
validateAccountIDFormat(accountID) ==
    IF IsUUID(accountID) THEN NoErr
    ELSE NewError("invalid account id uuid format: " \o accountID)

\* fmt.Sprintf("%s/%s", basePath, accountID), and with "?version=%d" for the delete
StringIDPath(o, id, version) ==
    IF o = "DeleteResource"
    THEN basePath \o "/" \o id \o "?version=" \o ToString(version)
    ELSE basePath \o "/" \o id

\* what an implementation of httpUtils returns from Get and from Delete
HttpUtilsResults(v) ==
    IF v = "Get"
    THEN {Result(Bytes(Doc("object", "", 0, id)), NoErr) : id \in AccountIDs}
           \cup {Result(Bytes(InvalidDoc), NoErr),
                 Result(Bytes(InvalidDoc), NewError("unable to unmarshal invalid json")),
                 Result(NilBytes, ResponseError(StatusNotFound, "record does not exist"))}
    ELSE {Result(NilBytes, NoErr),
          Result(NilBytes, ResponseError(StatusNotFound, "not found")),
          Result(NilBytes, NewError("failed to perform request"))}

\* FetchResource(accountID string) or DeleteResource(accountID string, version int) is called
CallWithStringID(o, id, version) ==
    /\ pc = "idle"
    /\ accRev = "stringID"
    /\ op' = o
    /\ verb' = ""
    /\ arg' = [path |-> StringIDPath(o, id, version),
               version |-> IF o = "DeleteResource" THEN ToString(version) ELSE "",
               id |-> id, body |-> NilBytes]
    /\ pc' = "validate"
    /\ request' = NoRequest
    /\ response' = NoResponse
    /\ env' = NoEnv
    /\ doCalls' = 0
    /\ transportCalls' = 0
    /\ ret' = NoResult
    /\ out' = NoOutcome
    /\ before' = store
    /\ closes' = 0
    /\ UNCHANGED build

\* mutant of ValidateID: the transport is called whatever the id is
ValidateIDAfterCall ==
    /\ pc = "validate"
    /\ verb' = TransportOf(op)
    /\ transportCalls' = transportCalls + 1
    /\ pc' = "httpUtils"
    /\ UNCHANGED out
    /\ UNCHANGED <<build, before, closes, op, arg, request, response, env, doCalls, ret>>

\* the id is validated; an invalid id ends the operation, a valid one goes to the transport
ValidateID ==
    /\ pc = "validate"
    /\ IF validateAccountIDFormat(arg.id) # NoErr
       THEN /\ out' = Outcome(NilBytes, NilData,
                              Wrap(validateAccountIDFormat(arg.id), OperationSuffix(op)))
            /\ pc' = "done"
            /\ UNCHANGED <<verb, transportCalls>>
       ELSE /\ verb' = TransportOf(op)
            /\ transportCalls' = transportCalls + 1
            /\ pc' = "httpUtils"
            /\ UNCHANGED out
    /\ UNCHANGED <<build, before, closes, op, arg, request, response, env, doCalls, ret>>

\* client.http.Get(resourcePath) or client.http.Delete(resourcePath) returns r
HttpUtilsReturns(r) ==
    /\ pc = "httpUtils"
    /\ r \in HttpUtilsResults(verb)
    /\ ret' = r
    /\ pc' = "returned"
    /\ UNCHANGED <<build, before, closes, op, verb, arg, request, response, env, doCalls,
                   transportCalls, out>>

\* the rest of the operation: wrap the transport's error, or unmarshal the record
FinishWithStringID ==
    /\ pc = "returned"
    /\ out' = FinishResource(op, "json.Unmarshal", ret)
    /\ pc' = "done"
    /\ UNCHANGED <<build, before, closes, op, verb, arg, request, response, env, doCalls,
                   transportCalls, ret>>

InitStringID ==
    /\ httpRev = "perVerb"
    /\ errRev = "plain"
    /\ accRev = "stringID"
    /\ client = NewClient(DefaultBaseURI)
    /\ store = {}
    /\ removed = {}
    /\ caps = NoEnv
    /\ pc = "idle"
    /\ NoCall

NextStringID ==
    \/ \E o \in StringIDOps, id \in StringIDs, version \in Versions :
          CallWithStringID(o, id, version)
    \/ ValidateID
    \/ \E r \in HttpUtilsResults("Get") \cup HttpUtilsResults("Delete") : HttpUtilsReturns(r)
    \/ FinishWithStringID
    \/ Return

SpecStringID == InitStringID /\ [][NextStringID]_vars

-----------------------------------------------------------------------------
(* Vocabulary of the properties *)

\* the transport operation has returned, and Do had returned a response
Responded == pc = "returned" /\ response # NoResponse

\* reading the body of the response fails, whoever reads it
ReadFails == env.reader = "stub" \/ response.Body.readErr

\* the cause a failing read reports
ReadCause ==
    IF env.reader = "stub" THEN "failed to read body for some reason" ELSE "unexpected EOF"

\* the statuses for which the perVerb revision parses the body into a ResponseError
ApiFailureStatuses(v) ==
    CASE v = "Post" -> {400, 409}
      [] v = "Get" -> {400, 404}
      [] OTHER -> {400}

\* the response status selects the branch that parses the body into a ResponseError
ApiFailureBranch ==
    IF httpRev = "handleResponse"
    THEN response.StatusCode >= 400
    ELSE response.StatusCode \in ApiFailureStatuses(verb)

\* the body parses as an object with a non-empty error_message
HasMessage ==
    /\ ~ReadFails
    /\ env.unmarshaller = "json.Unmarshal"
    /\ response.Body.content.kind = "object"
    /\ response.Body.content.error_message # ""

ApiFailureText(status, msg) ==
    "api failure with status code " \o ToString(status) \o " and message: " \o msg

-----------------------------------------------------------------------------
(* C1: for every response with a status in 200..299 and any (readable)     *)
(* body, Post and Get return exactly the body bytes with a nil error and   *)
(* Delete returns a nil error, for each verb and each status of the range. *)
C1_SuccessRangeReturnsBody ==
    (Responded /\ ~ReadFails /\ response.StatusCode \in 200..299) =>
        /\ ret.err = NoErr
        /\ verb \in {"Post", "Get"} => ret.bytes = Bytes(response.Body.content)

C4_DeleteNotFound ==
    /\ (/\ Responded /\ verb = "Delete"
        /\ response.StatusCode = 404 /\ response.Body.content = EmptyDoc) =>
           /\ ret.err = ResponseError(404, "not found")
           /\ ErrorText(ret.err) = "api failure with status code 404 and message: not found"
    /\ (/\ pc = "done" /\ op = "DeleteResource" /\ arg.version = "0"
        /\ response.StatusCode = 404 /\ response.Body.content = EmptyDoc) =>
           /\ ErrorText(out.err) =
                "api failure with status code 404 and message: not found; unable to delete resource"
           /\ Unwrap(out.err) = ResponseError(404, "not found")

C4_Witness ==
    /\ pc = "done" /\ op = "DeleteResource" /\ arg.version = "0"
    /\ response.StatusCode = 404 /\ response.Body.content = EmptyDoc
    /\ out.err # NoErr

(* C5: the StatusCode of every ResponseError returned by Post, Get or      *)
(* Delete equals the status code of the HTTP response, for every body,     *)
(* including one that carries a StatusCode member of its own.              *)
C5_StatusCodeIsHttpStatus ==
    (Responded /\ IsResponseError(ret.err)) =>
        Head(ret.err).StatusCode = response.StatusCode

(* C6: when the status selects the API-failure branch and parsing the body *)
(* into a ResponseError fails, Post, Get and Delete return exactly the     *)
(* parser's error: the same value, no suffix, no ResponseError.            *)
C6_ParseErrorReturned ==
    (/\ Responded /\ ~ReadFails /\ ApiFailureBranch
     /\ UnmarshalError(env.unmarshaller, Bytes(response.Body.content)).err # NoErr) =>
        ret.err = UnmarshalError(env.unmarshaller, Bytes(response.Body.content)).err

(* C7: if Do fails with cause e, Post returns an error with text           *)
(* "<e>; failed to post data" that wraps e, Get and Delete return e        *)
(* itself, and no bytes are returned.                                      *)
C7_DoFailure ==
    (pc = "returned" /\ env.doErr # NoErr) =>
        /\ ret.bytes = NilBytes
        /\ IF verb = "Post"
           THEN /\ ErrorText(ret.err) = ErrorText(env.doErr) \o "; failed to post data"
                /\ Unwrap(ret.err) = env.doErr
           ELSE ret.err = env.doErr

C7_Witness ==
    /\ pc = "returned" /\ env.doErr # NoErr /\ verb = "Post"
    /\ ErrorText(ret.err) = "failed to perform request; failed to post data"

(* C8, as stated: for each of Post, Get and Delete and every status, a     *)
(* failing read of the response body makes the operation return an error   *)
(* with text "<e>; failed to read response body".                          *)
C8_ReadFailureAnyStatus ==
    (Responded /\ ReadFails) =>
        /\ ret.err # NoErr
        /\ ErrorText(ret.err) = ReadCause \o "; failed to read response body"

(* C8, amended: that holds for Post and Get on every status, and for       *)
(* Delete on status 400, the one status on which Delete reads the body.    *)
C8_ReadFailureWhereRead ==
    (/\ Responded /\ ReadFails
     /\ verb = "Delete" => response.StatusCode = 400) =>
        /\ ret.bytes = NilBytes
        /\ ret.err # NoErr
        /\ ErrorText(ret.err) = ReadCause \o "; failed to read response body"
        /\ ErrorText(Unwrap(ret.err)) = ReadCause

C8_Witness ==
    /\ Responded /\ ReadFails
    /\ verb = "Get" /\ response.StatusCode = 500
    /\ ErrorText(ret.err) = "unexpected EOF; failed to read response body"

(* C9: ResponseError.Error() is "api failure with status code <N> and      *)
(* message: <message>" for a non-empty message and "api failure with       *)
(* status code <N> and no message received" for an empty one, as in the    *)
(* errors Post, Get and Delete return.                                     *)
C9_NoMessageWording ==
    (Responded /\ IsResponseError(ret.err)) =>
        ErrorText(ret.err) =
            IF Head(ret.err).ErrorMessage = ""
            THEN "api failure with status code " \o ToString(Head(ret.err).StatusCode)
                     \o " and no message received"
            ELSE ApiFailureText(Head(ret.err).StatusCode, Head(ret.err).ErrorMessage)

(* C10: every call of Post, Get or Delete invokes Do at most once, and     *)
(* exactly once when the request was built; after a failed Do or a failure *)
(* status no second request is issued; every call of CreateResource,       *)
(* FetchResource or DeleteResource invokes at most one transport operation.*)
C10_OneRequestPerCall ==
    /\ doCalls <= 1
    /\ transportCalls <= 1
    /\ (pc \in {"returned", "done", "idle"} /\ env.reqCreator = "http.NewRequest") =>
           doCalls = 1
    /\ (pc \in {"returned", "done", "idle"} /\ env.reqCreator # "http.NewRequest") =>
           doCalls = 0
    /\ (pc \in {"request", "do", "respond", "returned"} /\ op \in ResourceOps) =>
           transportCalls = 1

C10_Witness ==
    /\ pc = "done" /\ op = "CreateResource"
    /\ env.doErr # NoErr
    /\ doCalls = 1 /\ transportCalls = 1

-----------------------------------------------------------------------------
(* Vocabulary of the properties of the resource client *)

\* the revisions of accounts/client.go
ClientGo == accRev \in {"injected", "extract"}

\* the resource operation has returned after a transport call that failed
TransportFailed == pc = "done" /\ op \in ResourceOps /\ transportCalls = 1 /\ ret.err # NoErr

\* the resource operation has returned after a transport call that succeeded
TransportSucceeded ==
    pc = "done" /\ op \in ResourceOps /\ transportCalls = 1 /\ ret.err = NoErr

\* the unmarshaller the revision applies to the response
AccUnmarshaller == IF accRev = "injected" THEN env.accUnmarshaller ELSE "json.Unmarshal"

\* the error the unmarshaller reports for the bytes the transport returned
ParserError == UnmarshalPayload(AccUnmarshaller, ret.bytes).err

\* the transport succeeded and its bytes could not be unmarshalled
UnmarshalFailed ==
    TransportSucceeded /\ op \in {"CreateResource", "FetchResource"} /\ ParserError # NoErr

\* the payload could not be marshalled
MarshalFailed == pc = "done" /\ op = "CreateResource" /\ env.marshaller = "stub"

\* errors.Is(e, c) for the errors of the model: c is e or is wrapped in e
Wraps(e, c) == c # NoErr /\ \E i \in 0..Len(e) : SubSeq(e, i + 1, Len(e)) = c

(* C11: in accounts/client.go, for every error e that Post, Get or Delete  *)
(* returns, CreateResource, FetchResource and DeleteResource return no     *)
(* record and an error whose text is e's text followed by "; unable to     *)
(* create resource", "; unable to fetch resource" and "; unable to delete  *)
(* resource", and which wraps e, so that a ResponseError is recovered from *)
(* it with its status and message.                                         *)
C11_TransportErrorWrapped ==
    (TransportFailed /\ ClientGo) =>
        /\ out.data = NilData
        /\ ErrorText(out.err) =
             ErrorText(ret.err) \o
               (CASE op = "CreateResource" -> "; unable to create resource"
                  [] op = "FetchResource" -> "; unable to fetch resource"
                  [] OTHER -> "; unable to delete resource")
        /\ Unwrap(out.err) = ret.err

C11_Witness ==
    /\ TransportFailed /\ accRev = "injected" /\ op = "CreateResource"
    /\ ret.err = ResponseError(409, "validation failure")
    /\ Unwrap(out.err) = ResponseError(409, "validation failure")
    /\ ErrorText(out.err) =
         "api failure with status code 409 and message: validation failure; unable to create resource"

(* C12, as stated: FetchResource and DeleteResource return the error e of  *)
(* the transport unchanged: the returned error is e itself.                *)
C12_PropagatedUnchanged ==
    (TransportFailed /\ op \in {"FetchResource", "DeleteResource"}) => out.err = ret.err

(* C12, amended: the FetchResource and DeleteResource of accounts/client.go*)
(* return an error that is not e but wraps it, with the text of e followed *)
(* by "; unable to fetch resource" or "; unable to delete resource"; the   *)
(* FetchResource that takes the id as a string returns e itself.           *)
C12_WrappedInClientGo ==
    (TransportFailed /\ op \in {"FetchResource", "DeleteResource"}) =>
        IF ClientGo
        THEN /\ out.err # ret.err
             /\ Unwrap(out.err) = ret.err
             /\ ErrorText(out.err) =
                  ErrorText(ret.err) \o
                    (IF op = "FetchResource" THEN "; unable to fetch resource"
                                             ELSE "; unable to delete resource")
        ELSE out.err = ret.err

C12_Witness ==
    /\ TransportFailed /\ accRev = "extract" /\ op = "FetchResource"
    /\ response.StatusCode = 404
    /\ ErrorText(out.err) =
         "api failure with status code 404 and message: record does not exist; unable to fetch resource"

(* C13: when marshalling the payload fails with cause e, CreateResource    *)
(* returns no record and an error with text "<e>; unable to convert        *)
(* account data payload" that wraps e, and the transport's Post is never   *)
(* invoked: no transport call, no request, no Do.                          *)
C13_MarshalFailure ==
    /\ env.marshaller = "stub" => pc \in {"done", "idle"}
    /\ MarshalFailed =>
         /\ out.data = NilData
         /\ ErrorText(out.err) = "failed to marshal; unable to convert account data payload"
         /\ Unwrap(out.err) = NewError("failed to marshal")
         /\ transportCalls = 0 /\ doCalls = 0
         /\ verb = "" /\ request = NoRequest

C13_Witness ==
    /\ MarshalFailed /\ accRev = "injected"
    /\ out.err # NoErr /\ transportCalls = 0

(* C14, as stated: when the transport succeeds and the returned bytes      *)
(* cannot be unmarshalled, CreateResource and FetchResource of             *)
(* accounts/client.go return no record and an error whose text is exactly  *)
(* "failed to unmarshal response data".                                    *)
C14_ExactText ==
    (UnmarshalFailed /\ ClientGo) =>
        /\ out.data = NilData
        /\ out.err # NoErr
        /\ ErrorText(out.err) = "failed to unmarshal response data"

(* C14, amended: that is the text in the revision with the injected        *)
(* unmarshaller; the revision with extractAccountDataFromResponse wraps    *)
(* that error, and its text is "failed to unmarshal response data; failed  *)
(* to extract account data after successful account creation" for          *)
(* CreateResource and "failed to unmarshal response data; unable to        *)
(* extract the fetched data from the response" for FetchResource.          *)
C14_TextByRevision ==
    (UnmarshalFailed /\ ClientGo) =>
        /\ out.data = NilData
        /\ out.err # NoErr
        /\ IF accRev = "injected"
           THEN out.err = NewError("failed to unmarshal response data")
           ELSE /\ Unwrap(out.err) = NewError("failed to unmarshal response data")
                /\ ErrorText(out.err) =
                     IF op = "CreateResource"
                     THEN "failed to unmarshal response data; failed to extract account data after successful account creation"
                     ELSE "failed to unmarshal response data; unable to extract the fetched data from the response"

C14_Witness ==
    /\ UnmarshalFailed /\ accRev = "extract" /\ op = "FetchResource"
    /\ response.StatusCode = 200 /\ response.Body.content = InvalidDoc
    /\ out.err # NoErr

(* C15, as stated: the resource client of accounts/client.go never         *)
(* discards a cause: when marshalling, the transport call or unmarshalling *)
(* fails, the returned error wraps the original cause.                     *)
C15_CauseNeverDiscarded ==
    ClientGo =>
        /\ MarshalFailed => Wraps(out.err, NewError("failed to marshal"))
        /\ TransportFailed => Wraps(out.err, ret.err)
        /\ UnmarshalFailed => Wraps(out.err, ParserError)

(* C15, amended: the returned error wraps the cause when marshalling or    *)
(* the transport call fails; when unmarshalling fails the parser's error   *)
(* is discarded, and the innermost error of the chain is a new one with    *)
(* the text "failed to unmarshal response data".                           *)
C15_CauseKeptButForUnmarshal ==
    ClientGo =>
        /\ MarshalFailed => Unwrap(out.err) = NewError("failed to marshal")
        /\ TransportFailed => Unwrap(out.err) = ret.err
        /\ UnmarshalFailed =>
             /\ Wraps(out.err, NewError("failed to unmarshal response data"))
             /\ ~Wraps(out.err, ParserError)

C15_Witness ==
    /\ UnmarshalFailed /\ accRev = "injected" /\ op = "CreateResource"
    /\ env.accUnmarshaller = "stub"
    /\ ParserError = NewError("failed to unmarshal")
    /\ out.err = NewError("failed to unmarshal response data")

\* the operation in progress reads the body of the response
BodyIsRead ==
    IF httpRev = "handleResponse"
    THEN response.StatusCode \in 200..298 \/ response.StatusCode >= 400
    ELSE verb \in {"Post", "Get"} \/ response.StatusCode = StatusBadRequest

\* a step of the call that has returned failed
StepFailed ==
    \/ env.reqCreator = "stub"
    \/ env.doErr # NoErr
    \/ response # NoResponse /\ BodyIsRead /\ ReadFails
    \/ /\ response # NoResponse /\ ~ReadFails /\ ApiFailureBranch
       /\ UnmarshalError(env.unmarshaller, Bytes(response.Body.content)).err # NoErr
    \/ MarshalFailed
    \/ UnmarshalFailed

(* C16: whenever a step of an operation fails (building the request, Do,   *)
(* reading the body, parsing an error body, marshalling the payload,       *)
(* unmarshalling the response), the operation returns a non-nil error and  *)
(* no result: no bytes and no record.                                      *)
C16_FailureGivesError ==
    (pc = "done" /\ StepFailed) =>
        /\ out.err # NoErr
        /\ out.bytes = NilBytes
        /\ out.data = NilData

-----------------------------------------------------------------------------
(* Vocabulary of the properties of construction and of the request *)

\* strings.HasSuffix
HasSuffix(s, x) == Len(s) >= Len(x) /\ Drop(s, Len(s) - Len(x)) = x

\* the base URI string names both a scheme and a host
WithOrigin(baseURI) ==
    /\ Parse(baseURI).err = NoErr
    /\ Parse(baseURI).url.Scheme # ""
    /\ Parse(baseURI).url.Host # ""

\* NewClient has returned
Constructed == pc # "new"

\* the origin the client was constructed with
Origin == client.baseURI.Scheme \o "://" \o client.baseURI.Host

\* a resource operation has built its request
RequestBuilt ==
    /\ pc \in {"do", "respond", "returned", "done"}
    /\ op \in ResourceOps
    /\ request # NoRequest

(* C17: on a client with an origin, CreateResource posts to                *)
(* "/v1/organisation/accounts" with the marshalled envelope of the record  *)
(* as body; FetchResource(id) issues GET "/v1/organisation/accounts/<id>"  *)
(* with no query; DeleteResource(id, version) issues DELETE on that path   *)
(* with the query "version=<version in decimal>", so that the request URL  *)
(* is <origin>/v1/organisation/accounts/<id>?version=<n>.                  *)
C17_RequestTargets ==
    (RequestBuilt /\ client.baseURI.Scheme # "" /\ client.baseURI.Host # "") =>
        CASE op = "CreateResource" ->
               /\ request.Method = "POST"
               /\ String(request.URL) = Origin \o "/v1/organisation/accounts"
               /\ request.Body = Bytes(Doc("object", "", 0, arg.id))
               /\ UnmarshalPayload("json.Unmarshal", request.Body).data = AccountData(arg.id)
          [] op = "FetchResource" ->
               /\ request.Method = "GET"
               /\ String(request.URL) = Origin \o "/v1/organisation/accounts/" \o arg.id
               /\ request.URL.RawQuery = ""
               /\ request.Body = NilBytes
          [] OTHER ->
               /\ request.Method = "DELETE"
               /\ arg.version \in {ToString(n) : n \in Versions}
               /\ request.URL.RawQuery = "version=" \o arg.version
               /\ String(request.URL) =
                    Origin \o "/v1/organisation/accounts/" \o arg.id
                           \o "?version=" \o arg.version
               /\ request.Body = NilBytes

C17_Witness ==
    /\ RequestBuilt /\ op = "DeleteResource" /\ httpRev = "handleResponse"
    /\ client.input = "http://localhost:8080/v1?debug=1"
    /\ String(request.URL) =
         "http://localhost:8080/v1/organisation/accounts/ad27e265-9605-4b4b-a0e5-3003ea9cc4dc?version=1"

(* C18: NewClient(baseURI, timeout) returns no client and an error whose   *)
(* text ends with "; invalid base uri" for every base URI that lacks a     *)
(* scheme or a host, a string that is only an absolute path included, and  *)
(* returns a client only for a base URI with both.                         *)
C18_OriginRequired ==
    Constructed =>
        /\ client.made <=> WithOrigin(client.input)
        /\ ~client.made =>
             /\ client.err # NoErr
             /\ HasSuffix(ErrorText(client.err), "; invalid base uri")

C20_CreateThenFetch ==
    /\ (pc = "done" /\ op = "CreateResource" /\ out.err = NoErr) =>
          /\ arg.id \in store
          /\ out.data = AccountData(arg.id)
    /\ (pc = "done" /\ op = "FetchResource" /\ arg.id \in store) =>
          /\ out.err = NoErr
          /\ out.data = AccountData(arg.id)

C20_Witness ==
    /\ pc = "done" /\ op = "FetchResource"
    /\ store = ServerAccountIDs
    /\ arg.id = "0d209d7f-d07a-4542-947f-5885fddddae2"
    /\ out.err = NoErr
    /\ out.data = AccountData("0d209d7f-d07a-4542-947f-5885fddddae2")

-----------------------------------------------------------------------------
(* Properties of the client against the API server *)

(* C21: against the same server, CreateResource of an id the server does   *)
(* not hold succeeds and returns the record, and CreateResource of an id   *)
(* the server holds already returns no record and an error that wraps the  *)
(* ResponseError of status 409, with text "api failure with status code    *)
(* 409 and message: <server message>; unable to create resource".          *)
C21_DuplicateCreate ==
    (pc = "done" /\ op = "CreateResource") =>
        IF arg.id \in before
        THEN /\ out.data = NilData
             /\ Unwrap(out.err) =
                  ResponseError(409,
                    "Account cannot be created as it violates a duplicate constraint")
             /\ ErrorText(out.err) =
                  "api failure with status code 409 and message: Account cannot be created as it violates a duplicate constraint; unable to create resource"
             /\ store = before
        ELSE /\ out.err = NoErr
             /\ out.data = AccountData(arg.id)
             /\ store = before \cup {arg.id}

C21_Witness ==
    /\ pc = "done" /\ op = "CreateResource"
    /\ arg.id \in before
    /\ response.StatusCode = 409
    /\ out.err # NoErr /\ out.data = NilData

(* C22: in accounts/client.go, DeleteResource(I, 0) of a stored account I  *)
(* (0 is the version a create returns) succeeds and the server no longer   *)
(* holds I; FetchResource(I) of a deleted I returns no record and an error *)
(* that wraps the ResponseError of status 404, with text "api failure with *)
(* status code 404 and message: record <I> does not exist; unable to fetch *)
(* resource"; a fetch returns a record only of an id the server holds.     *)
C22_FetchAfterDelete ==
    ClientGo =>
        /\ (pc = "done" /\ op = "DeleteResource" /\ arg.id \in before /\ arg.version = "0") =>
              /\ out.err = NoErr
              /\ arg.id \notin store
              /\ arg.id \in removed
        /\ (pc = "done" /\ op = "FetchResource" /\ arg.id \in removed) =>
              /\ out.data = NilData
              /\ Unwrap(out.err) =
                   ResponseError(404, "record " \o arg.id \o " does not exist")
              /\ ErrorText(out.err) =
                   "api failure with status code 404 and message: record " \o arg.id
                     \o " does not exist; unable to fetch resource"
        /\ (pc = "done" /\ op = "FetchResource" /\ out.data # NilData) =>
              arg.id \in store /\ arg.id \notin removed

C22_Witness ==
    /\ pc = "done" /\ op = "FetchResource" /\ accRev = "injected"
    /\ arg.id \in removed
    /\ response.StatusCode = 404
    /\ out.err # NoErr

\* the call of caller p has returned to its caller
Returned(p) == calls[p].pc = "done"

\* the call of caller p is in progress
InProgress(p) == calls[p].pc # "idle"

\* the arguments of the call of caller p as they were given: the marshalled payload of
\* CreateResource is made during the call
GivenArgs(p) ==
    IF calls[p].op = "CreateResource" THEN [calls[p].arg EXCEPT !.body = NilBytes]
    ELSE calls[p].arg

\* C23: for any interleaving of concurrent calls of Post, Get, Delete, CreateResource,
\* FetchResource and DeleteResource on one shared client whose Do is concurrency-safe,
\* the result of each call is the result the call gives alone on its own response (or
\* its own Do failure), and during a call the client's base URI and capabilities are
\* what they were when the call was made.
C23_ConcurrentCallsIndependent ==
    \A p \in Procs :
        /\ InProgress(p) => client = calls[p].client /\ caps = calls[p].caps
        /\ Returned(p) =>
             calls[p].out = RunAlone(calls[p].client, calls[p].caps, calls[p].op,
                                     GivenArgs(p), calls[p].doErr, calls[p].response)

C23_Witness ==
    /\ Returned("caller1")
    /\ calls["caller2"].pc \in {"respond", "returned", "done"}
    /\ calls["caller1"].verb = calls["caller2"].verb
    /\ calls["caller1"].response # NoResponse
    /\ calls["caller2"].response # NoResponse
    /\ calls["caller1"].response # calls["caller2"].response
    /\ calls["caller1"].out.err = NoErr

\* a call of Post or Get has returned to its caller
PostOrGetReturned == pc \in {"returned", "done"} /\ verb \in {"Post", "Get"}

\* CreateResource or FetchResource of accounts/client.go (first revision) has returned
CreateOrFetchReturned ==
    pc = "done" /\ op \in {"CreateResource", "FetchResource"} /\ accRev = "injected"

\* C24: every call of Post, Get, CreateResource and FetchResource returns exactly one of
\* a result and an error: when the error is non-nil the bytes or record are nil, and
\* when the error of CreateResource or FetchResource is nil the record is non-nil, for
\* every body that unmarshals, an envelope without a data member included.
C24_ExactlyOneOfResultAndError ==
    /\ PostOrGetReturned => (ret.err # NoErr => ret.bytes = NilBytes)
    /\ CreateOrFetchReturned =>
         /\ out.err # NoErr => out.data = NilData
         /\ out.err = NoErr => out.data # NilData

\* the transport operation has returned without a request: building it failed
RequestFailed ==
    pc \in {"returned", "done"} /\ verb \in TransportOps /\ request = NoRequest

\* the error the request creator reported
RequestCause ==
    IF env.reqCreator = "stub" THEN NewError("failed to create the request")
    ELSE NewRequest(Method(verb),
                    RequestURL(client, arg.path,
                               IF verb = "Delete" THEN EncodeQuery(arg.version) ELSE ""),
                    arg.body).err

\* C25: when building the request fails with cause e, Post, Get and Delete return e
\* itself, with no suffix and with nil bytes, and Do is never invoked.
C25_RequestFailureReturnedAsIs ==
    RequestFailed =>
        /\ ret.err = RequestCause
        /\ ret.err # NoErr
        /\ Len(ret.err) = 1
        /\ ret.bytes = NilBytes
        /\ doCalls = 0
        /\ response = NoResponse

C25_Witness ==
    /\ RequestFailed
    /\ verb = "Delete"
    /\ env.reqCreator = "stub"
    /\ ErrorText(ret.err) = "failed to create the request"

\* an operation taking the id as a string has returned
StringIDReturned == pc = "done" /\ accRev = "stringID" /\ op \in StringIDOps

\* C26: in the revision whose FetchResource and DeleteResource take the account id as a
\* string, the id is validated before any I/O: for an id that is not a UUID the
\* operation returns the error "invalid account id uuid format: <id>; unable to fetch
\* resource" (or "...; unable to delete resource") and never calls Get or Delete on the
\* transport; for a valid UUID the transport is called exactly once.
C26_IDValidatedBeforeIO ==
    /\ (accRev = "stringID" /\ ~IsUUID(arg.id)) => transportCalls = 0 /\ ret = NoResult
    /\ StringIDReturned =>
         IF IsUUID(arg.id)
         THEN transportCalls = 1 /\ ret \in HttpUtilsResults(TransportOf(op))
         ELSE /\ out.data = NilData
              /\ Len(out.err) = 2
              /\ ErrorText(out.err) =
                   "invalid account id uuid format: " \o arg.id \o "; " \o
                     (IF op = "FetchResource" THEN "unable to fetch resource"
                                              ELSE "unable to delete resource")

C26_Witness ==
    /\ StringIDReturned
    /\ op = "DeleteResource"
    /\ arg.id = "invalid-uuid"
    /\ ErrorText(out.err) = "invalid account id uuid format: invalid-uuid; unable to delete resource"
    /\ transportCalls = 0

\* the status on which the verb succeeds in the perVerb revision
SuccessStatus(v) ==
    CASE v = "Post" -> 201
      [] v = "Get" -> 200
      [] OTHER -> 204

\* the statuses on which the verb returns a ResponseError in the perVerb revision
ResponseErrorStatuses(v) ==
    CASE v = "Post" -> {400, 409}
      [] v = "Get" -> {400, 404}
      [] OTHER -> {400, 404}

\* the status of the response is one the verb has no case for
OtherStatus ==
    response.StatusCode \notin {SuccessStatus(verb)} \cup ResponseErrorStatuses(verb)

\* C27, as stated: in the perVerb revision the outcome is a total function of verb and
\* status: Post succeeds only on 201 and returns a ResponseError only on 400 and 409,
\* Get succeeds only on 200 and returns a ResponseError only on 400 and 404, Delete
\* succeeds only on 204 and returns a ResponseError only on 400 and 404, and every
\* other status gives "unexpected status code <status>".
C27_OutcomeByVerbAndStatus ==
    Responded =>
        /\ ret.err = NoErr => response.StatusCode = SuccessStatus(verb)
        /\ IsResponseError(ret.err) => response.StatusCode \in ResponseErrorStatuses(verb)
        /\ OtherStatus => ret.err = UnexpectedStatus(response.StatusCode)

\* C27, amended: the sets of statuses are as stated, and every other status gives
\* "unexpected status code <status>" once the body has been read: Post and Get read
\* the body before they look at the status, so that a failed read gives the read error
\* at every status; Delete reads no body at those statuses.
C27_OutcomeByStatusOnceRead ==
    Responded =>
        /\ ret.err = NoErr => response.StatusCode = SuccessStatus(verb)
        /\ IsResponseError(ret.err) => response.StatusCode \in ResponseErrorStatuses(verb)
        /\ IF BodyIsRead /\ ReadFails
           THEN ErrorText(ret.err) = ReadCause \o "; failed to read response body"
           ELSE /\ OtherStatus <=> ret.err = UnexpectedStatus(response.StatusCode)
                /\ response.StatusCode = SuccessStatus(verb) => ret.err = NoErr

C27_Witness ==
    /\ Responded
    /\ verb = "Post"
    /\ response.StatusCode = StatusOK
    /\ ~ReadFails
    /\ ErrorText(ret.err) = "unexpected status code 200"

\* Delete has returned after Do gave it a response with the status s
DeleteResponded(s) == Responded /\ verb = "Delete" /\ response.StatusCode = s

\* what Get returns for the response that the call in hand received
GetOnSameResponse == GetResponse(env.reader, env.unmarshaller, response)

\* C28: Delete on a 404 response returns the message "not found" for every response
\* body, never reading it, whereas Get on the same response, when its body carries a
\* parseable error_message M, gives the message M; and a failing body reader never
\* makes Delete on 404 or on 204 return a body-read error.
C28_DeleteNotFoundIgnoresBody ==
    /\ DeleteResponded(StatusNotFound) =>
         /\ ret.err = ResponseError(404, "not found")
         /\ ErrorText(ret.err) = "api failure with status code 404 and message: not found"
         /\ HasMessage =>
              ErrorText(GetOnSameResponse.err) =
                 "api failure with status code 404 and message: "
                    \o response.Body.content.error_message
         /\ ReadFails =>
              ErrorText(GetOnSameResponse.err) =
                 ReadCause \o "; failed to read response body"
    /\ DeleteResponded(StatusNoContent) => ret.err = NoErr

C28_Witness ==
    /\ DeleteResponded(StatusNotFound)
    /\ HasMessage
    /\ response.Body.content.error_message = "record does not exist"
    /\ ErrorText(ret.err) = "api failure with status code 404 and message: not found"

\* a transport operation has returned after Do gave it a response
ReturnedWithResponse ==
    pc \in {"returned", "done"} /\ verb \in TransportOps /\ response # NoResponse

\* C29: on every path of Post, Get and Delete on which Do returned a response, the body
\* of the response has been closed exactly once when the operation returns.
C29_BodyClosedOnce == ReturnedWithResponse => closes = 1

\* the base URI as the constructor of the handleResponse revision stores it
StoredWhole == Parse(client.input).url

\* the base URI as the constructor of the perVerb revision stores it
StoredOrigin == URL(Parse(client.input).url.Scheme, "", Parse(client.input).url.Host, "", "")

\* the query a resource operation asks for: that of DeleteResource only
OperationQuery == IF op = "DeleteResource" THEN "?version=" \o arg.version ELSE ""

====
